---- MODULE Spec2Model ----
(***************************************************************************)
(* Gap filling and quality validation of a vegetation-index time series,   *)
(* modelled from MCARI/mcari_analysis.py.  SAVI/savi_analysis.py is the    *)
(* same code with the column prefix SAVI_ and a lower range limit of -1.   *)
(*                                                                         *)
(* A DataFrame is a sequence of rows; a row is a function from the column  *)
(* names of the frame to cells.  A numeric cell is <<>> (NaN / None) or    *)
(* <<v>>, v an integer number of tenths (0.3 is <<3>>).  A date cell is a  *)
(* record [fmt, day]: fmt "str" for the 'YYYY-MM-dd' string the            *)
(* acquisition step produces, "ts" for a pandas Timestamp; day is the day  *)
(* number of the calendar date.                                            *)
(***************************************************************************)
EXTENDS Integers, Sequences, FiniteSets, TLC

VARIABLES pc, schema, df, max_gap_days, result, reports, smooth, outputs, chunks

vars == <<pc, schema, df, max_gap_days, result, reports, smooth, outputs, chunks>>

(* ------------------------------ bounds --------------------------------- *)
\* largest number of observations in an input DataFrame
MaxObs == 4
\* number of validate_results calls made on one series
MaxCalls == 2
\* day number of the latest calendar day an observation may fall on
LastDay == 38
\* calendar days an observation may fall on: with LastDay = 38, runs of 1, 2,
\* 4, 32, 35 and 37 missing days occur between them
Days == {0, 2, 5, LastDay}
\* mean values of an observation, in tenths: 0.5 and 2.5 (above the range)
Means == {5, 25}
\* values of the max_gap_days argument
GapChoices == {0, 1, 32}
\* outcomes of the numerical routines, in tenths: z of the sparse solve, s of
\* the natural cubic spline, c of the cubic interpolation of a statistic.
\* The linear algebra is not computed here: a call yields one of these, inside
\* the plausible range or below it.
Numerics == {[z |-> 4, s |-> 6, c |-> 2], [z |-> -30, s |-> -40, c |-> 2]}

(* --------------------------- program constants -------------------------- *)
\* fill_gaps(df, max_gap_days = 32)
DefaultMaxGapDays == 32
\* alpha = 0.7, in tenths
Alpha == 7
\* valid_idx.sum() > 3
SplineMinPoints == 3
\* scipy interp1d(kind='cubic') needs order + 1 points
CubicMinPoints == 4
\* (df['MCARI_mean'] > 2), (df['MCARI_mean'] < -2), in tenths
UpperLimit == 20
LowerLimit == -20
\* date_range < 30
MinCoverageDays == 30
\* gaps > 30
MaxGapAllowed == 30

(* ------------------------------- columns -------------------------------- *)
SecondaryCols == <<"MCARI_min", "MCARI_max", "MCARI_stdDev">>

MeanOnlyCols == {"date", "MCARI_mean"}

FullCols == {"date", "MCARI_mean", "MCARI_stdDev", "MCARI_min", "MCARI_max",
             "cloud_cover"}

Schemas == {MeanOnlyCols, FullCols}

NaN == <<>>

IsNull(cell) == cell = NaN

\* a sequence given as a function on 1..n, as a tuple (computed once)
AsSeq(f) == f \o <<>>

RECURSIVE SeqSum(_)
SeqSum(s) == IF s = <<>> THEN 0 ELSE Head(s) + SeqSum(Tail(s))

Min(S) == CHOOSE a \in S : \A b \in S : a <= b

Max(S) == CHOOSE a \in S : \A b \in S : a >= b

\* pd.DataFrame(...).columns: a frame without rows has no columns here
Columns(frame) == IF frame = <<>> THEN {} ELSE DOMAIN frame[1]

\* value of a non-date column in a row of the acquisition step
\* (process_image: one feature per image, every statistic from one reducer)
Feature(cols, d, m) ==
    [c \in cols |->
        CASE c = "date" -> [fmt |-> "str", day |-> d]
          [] c = "MCARI_mean" -> <<m>>
          [] c = "MCARI_stdDev" -> <<1>>
          [] c = "MCARI_min" -> <<m - 1>>
          [] c = "MCARI_max" -> <<m + 1>>
          [] c = "cloud_cover" -> <<d % 30>>]

\* a feature whose secondary statistics are null (stdDev, min and max are
\* nullable in an Observation; only the mean is required)
FeatureNoStats(cols, d, m) ==
    [c \in cols |->
        IF c \in {"MCARI_stdDev", "MCARI_min", "MCARI_max"} THEN NaN
        ELSE Feature(cols, d, m)[c]]

(* ------------------------------ pandas ---------------------------------- *)
\* pd.to_datetime on the date column: strings are parsed into Timestamps
to_datetime(frame) ==
    AsSeq([i \in DOMAIN frame |->
        [frame[i] EXCEPT !["date"] = [fmt |-> "ts", day |-> @.day]]])

RECURSIVE InsertByDate(_, _)
\* the place of row is after every row whose date is not later than its own
InsertByDate(sorted, row) ==
    IF sorted = <<>> THEN <<row>>
    ELSE IF sorted[Len(sorted)]["date"].day <= row["date"].day
         THEN Append(sorted, row)
         ELSE Append(InsertByDate(SubSeq(sorted, 1, Len(sorted) - 1), row),
                     sorted[Len(sorted)])

RECURSIVE sort_values(_)
\* df.sort_values('date'): ascending, rows with equal dates keep their order
sort_values(frame) ==
    IF frame = <<>> THEN <<>>
    ELSE InsertByDate(sort_values(SubSeq(frame, 1, Len(frame) - 1)),
                      frame[Len(frame)])

\* mutant: pd.date_range(start, end, freq='D', inclusive='left')
DateRangeLeft(start, end) == AsSeq([i \in 1..(end - start) |-> start + i - 1])

\* pd.date_range(start, end, freq='D')
date_range(start, end) == AsSeq([i \in 1..(end - start + 1) |-> start + i - 1])

\* the rows of frame whose date is day d, in frame order
RowsOn(frame, d) == SelectSeq(frame, LAMBDA r : r["date"].day = d)

\* an unmatched template day: every column of the right frame is NaN
NullRow(cols, d) ==
    [c \in cols |-> IF c = "date" THEN [fmt |-> "ts", day |-> d] ELSE NaN]

RECURSIVE MergeFrom(_, _, _)
MergeFrom(template, frame, k) ==
    IF k > Len(template) THEN <<>>
    ELSE (IF RowsOn(frame, template[k]) = <<>>
          THEN <<NullRow(Columns(frame), template[k])>>
          ELSE RowsOn(frame, template[k]))
         \o MergeFrom(template, frame, k + 1)

\* mutant: how='inner', only the matched template days are kept
MergeInner(template, frame) ==
    SelectSeq(MergeFrom(template, frame, 1),
              LAMBDA r : \E i \in DOMAIN frame : frame[i] = r)

\* mutant: how='outer' on keys that never match: the template rows, all NaN,
\* followed by the rows of the right frame
MergeUnmatched(template, frame) ==
    [k \in DOMAIN template |-> NullRow(Columns(frame), template[k])] \o frame

\* template_df.merge(df, on='date', how='left')
merge(template, frame) == MergeFrom(template, frame, 1)

(* ----------------------------- fill_gaps -------------------------------- *)
\* merged_df['MCARI_mean'].isnull()
IsNullMean(frame) ==
    AsSeq([i \in DOMAIN frame |-> IsNull(frame[i]["MCARI_mean"])])

RECURSIVE GroupsUpTo(_, _)
GroupsUpTo(gaps, k) ==
    IF k = 0 THEN <<>>
    ELSE LET prev == GroupsUpTo(gaps, k - 1)
         IN  Append(prev, IF k = 1 THEN 1
                          ELSE prev[k - 1] + (IF gaps[k] # gaps[k - 1] THEN 1 ELSE 0))

\* gaps.ne(gaps.shift()).cumsum()
gap_groups(gaps) == GroupsUpTo(gaps, Len(gaps))

\* mutant: gaps.sum() * gaps, the size is not taken per group
GapSizesUngrouped(gaps) ==
    AsSeq([i \in DOMAIN gaps |->
        IF gaps[i] THEN Cardinality({j \in DOMAIN gaps : gaps[j]}) ELSE 0])

\* gaps.groupby(gap_groups).transform('size') * gaps
gap_sizes(gaps) ==
    LET groups == gap_groups(gaps)
    IN  AsSeq([i \in DOMAIN gaps |->
            IF gaps[i] THEN Cardinality({j \in DOMAIN gaps : groups[j] = groups[i]})
            ELSE 0])

\* mutant: weights = np.ones(len(gaps)); weights[gap_sizes > max_gap_days] = 0
WeightsShortGapsOne(gaps, sizes, maxGap) ==
    AsSeq([i \in DOMAIN gaps |-> IF sizes[i] > maxGap THEN 0 ELSE 1])

\* weights = (~gaps).astype(float); weights[gap_sizes > max_gap_days] = 0
Weights(gaps, sizes, maxGap) ==
    AsSeq([i \in DOMAIN gaps |->
        IF sizes[i] > maxGap THEN 0 ELSE IF gaps[i] THEN 0 ELSE 1])

\* merged_df['MCARI_mean'].mean(): NaN is skipped
ColumnMean(frame) ==
    LET valid == SelectSeq([i \in DOMAIN frame |-> frame[i]["MCARI_mean"]],
                           LAMBDA cell : ~IsNull(cell))
    IN  SeqSum([i \in DOMAIN valid |-> valid[i][1]]) \div Len(valid)

\* merged_df['MCARI_mean'].fillna(merged_df['MCARI_mean'].mean()).values
FillNa(frame) ==
    LET mean == ColumnMean(frame)
    IN  AsSeq([i \in DOMAIN frame |->
            IF IsNull(frame[i]["MCARI_mean"]) THEN mean
            ELSE frame[i]["MCARI_mean"][1]])

\* z = spsolve(W + lambda * D'D, w * x): num.z stands for the solution
whittaker_smooth(x, w, num) == [i \in DOMAIN x |-> num.z]

\* lambda_: float = 100.0
Lambda == 100

\* D = diags([1, -2, 1], [0, -1, -2], shape=(n+2, n)), rows and columns from 1
D(k, j) ==
    CASE k = j -> 1
      [] k = j + 1 -> -2
      [] k = j + 2 -> 1
      [] OTHER -> 0

\* D.T.dot(D)
DtD(n) ==
    [i \in 1..n |-> [j \in 1..n |->
        SeqSum([k \in 1..(n + 2) |-> D(k, i) * D(k, j)])]]

\* A = W + lambda_ * D.T.dot(D) with W = diags(w)
SystemMatrix(w) ==
    LET n == Len(w)
        P == DtD(n)
    IN  [i \in 1..n |-> [j \in 1..n |->
            (IF i = j THEN w[i] ELSE 0) + Lambda * P[i][j]]]

\* w*x
RightHandSide(x, w) == AsSeq([i \in DOMAIN x |-> w[i] * x[i]])

\* the determinant of a matrix of three rows
Det3(M) ==
    M[1][1] * (M[2][2] * M[3][3] - M[2][3] * M[3][2])
    - M[1][2] * (M[2][1] * M[3][3] - M[2][3] * M[3][1])
    + M[1][3] * (M[2][1] * M[3][2] - M[2][2] * M[3][1])

\* M with column j replaced by b
ReplaceColumn(M, j, b) ==
    [r \in DOMAIN M |-> [c \in DOMAIN M |-> IF c = j THEN b[r] ELSE M[r][c]]]

\* spsolve(A, b) for three unknowns, exactly: the solution is num[i] / den
spsolve(A, b) ==
    [num |-> AsSeq([i \in DOMAIN A |-> Det3(ReplaceColumn(A, i, b))]),
     den |-> Det3(A)]

\* whittaker_smooth(x, w) on a sequence of three days, solved exactly
whittaker_solve(x, w) == spsolve(SystemMatrix(w), RightHandSide(x, w))

\* CubicSpline(positions, values, bc_type='natural') evaluated at i
spline(i, num) == num.s

\* alpha * smoothed + (1 - alpha) * spline, in tenths
Blend(z, s) == (Alpha * z + (10 - Alpha) * s) \div 10

\* valid_idx.sum() > 3: the spline is fitted and blended in
UseSpline(frame) ==
    Cardinality({i \in DOMAIN frame : ~IsNull(frame[i]["MCARI_mean"])})
        > SplineMinPoints

\* mutant: the estimate is assigned to every row, not through .loc[isnull]
FilledMeanEveryRow(frame, smoothed, num) ==
    AsSeq([i \in DOMAIN frame |->
        IF UseSpline(frame) THEN <<Blend(smoothed[i], spline(i, num))>>
        ELSE <<smoothed[i]>>])

\* the mean column after the assignment through .loc[isnull] of either branch
FilledMean(frame, smoothed, num) ==
    LET valid_idx == [i \in DOMAIN frame |-> ~IsNull(frame[i]["MCARI_mean"])]
    IN  AsSeq([i \in DOMAIN frame |->
            IF valid_idx[i] THEN frame[i]["MCARI_mean"]
            ELSE IF UseSpline(frame)
                 THEN <<Blend(smoothed[i], spline(i, num))>>
                 ELSE <<smoothed[i]>>])

\* Series.interpolate(method='cubic', limit_direction='both', limit=limit):
\* "raise" when pandas or scipy raises ValueError, else the new column
interpolate(col, limit, num) ==
    LET valid == {i \in DOMAIN col : ~IsNull(col[i])}
        invalid == DOMAIN col \ valid
        Near(i) == \/ \E j \in valid : j < i /\ i - j <= limit
                                       /\ \A k \in (j + 1)..i : k \in invalid
                   \/ \E j \in valid : j > i /\ j - i <= limit
                                       /\ \A k \in i..(j - 1) : k \in invalid
        Inside(i) == (\E j \in valid : j < i) /\ (\E j \in valid : j > i)
    IN  IF valid = {} \/ invalid = {} THEN [raised |-> FALSE, col |-> col]
        ELSE IF limit < 1 THEN [raised |-> TRUE, col |-> col]
        ELSE IF Cardinality(valid) < CubicMinPoints THEN [raised |-> TRUE, col |-> col]
        ELSE [raised |-> FALSE,
              col |-> AsSeq([i \in DOMAIN col |->
                          IF i \in invalid /\ Near(i) /\ Inside(i) THEN <<num.c>>
                          ELSE col[i]])]

\* the columns of SecondaryCols that the frame has, in loop order
PresentSecondary(frame) ==
    SelectSeq(SecondaryCols, LAMBDA c : c \in Columns(frame))

RECURSIVE InterpolateCols(_, _, _, _)
\* for col in [...]: if col in merged_df.columns: merged_df[col] = ...
InterpolateCols(frame, cols, limit, num) ==
    IF cols = <<>> THEN [raised |-> FALSE, frame |-> frame]
    ELSE LET c == Head(cols)
             r == interpolate(AsSeq([i \in DOMAIN frame |-> frame[i][c]]), limit, num)
         IN  IF r.raised THEN [raised |-> TRUE, frame |-> frame]
             ELSE InterpolateCols(
                      AsSeq([i \in DOMAIN frame |-> [frame[i] EXCEPT ![c] = r.col[i]]]),
                      Tail(cols), limit, num)

\* mutant: merged_df['is_interpolated'] = merged_df['MCARI_mean'].isnull(),
\* taken after the means are filled
WithFlagAfterFill(frame, gaps) ==
    AsSeq([i \in DOMAIN frame |->
        [c \in DOMAIN frame[i] \cup {"is_interpolated"} |->
            IF c = "is_interpolated" THEN IsNull(frame[i]["MCARI_mean"])
            ELSE frame[i][c]]])

\* merged_df['is_interpolated'] = gaps
WithFlag(frame, gaps) ==
    AsSeq([i \in DOMAIN frame |->
        [c \in DOMAIN frame[i] \cup {"is_interpolated"} |->
            IF c = "is_interpolated" THEN gaps[i] ELSE frame[i][c]]])

RECURSIVE KeepFrom(_, _, _)
KeepFrom(frame, keep, k) ==
    IF k > Len(frame) THEN <<>>
    ELSE (IF keep[k] THEN <<frame[k]>> ELSE <<>>) \o KeepFrom(frame, keep, k + 1)

\* mutant: merged_df[mask].dropna(subset=[min, max, stdDev])
FilterComplete(frame, keep) ==
    KeepFrom(frame,
             AsSeq([i \in DOMAIN frame |->
                 /\ keep[i]
                 /\ \A c \in DOMAIN frame[i] :
                       c \in {"MCARI_stdDev", "MCARI_min", "MCARI_max"}
                           => ~IsNull(frame[i][c])]),
             1)

\* merged_df[mask]
Filter(frame, keep) == KeepFrom(frame, keep, 1)

\* mutant: gap_sizes < max_gap_days
KeepMaskStrict(sizes, maxGap) == AsSeq([i \in DOMAIN sizes |-> sizes[i] < maxGap])

\* gap_sizes <= max_gap_days
KeepMask(sizes, maxGap) == AsSeq([i \in DOMAIN sizes |-> sizes[i] <= maxGap])

\* fill_gaps(df, max_gap_days): status "returned" with the frame returned and
\* the branch taken, or "raised"; caller is the caller's frame afterwards;
\* x and weights are the arguments of the whittaker_smooth call, <<>> when the
\* function returns before it
fill_gaps(frame, maxGap, num) ==
    IF frame = <<>>
    THEN [status |-> "returned", out |-> frame, path |-> "empty", caller |-> frame,
          x |-> <<>>, weights |-> <<>>]
    ELSE
    LET converted == to_datetime(frame)
        sorted == sort_values(converted)
        days == {sorted[i]["date"].day : i \in DOMAIN sorted}
        template == date_range(Min(days), Max(days))
        merged_df == merge(template, sorted)
        gaps == IsNullMean(merged_df)
        sizes == gap_sizes(gaps)
        weights == Weights(gaps, sizes, maxGap)
        x == FillNa(merged_df)
        smoothed == whittaker_smooth(x, weights, num)
        mean == FilledMean(merged_df, smoothed, num)
        withMean == AsSeq([i \in DOMAIN merged_df |->
                        [merged_df[i] EXCEPT !["MCARI_mean"] = mean[i]]])
        interp == InterpolateCols(withMean, PresentSecondary(withMean), maxGap, num)
        flagged == WithFlag(interp.frame, gaps)
        branch == IF UseSpline(merged_df) THEN "blend" ELSE "smooth"
    IN  IF \A i \in DOMAIN gaps : ~gaps[i]
        THEN [status |-> "returned", out |-> merged_df, path |-> "no_gaps",
              caller |-> converted, x |-> <<>>, weights |-> <<>>]
        ELSE IF interp.raised
        THEN [status |-> "raised", out |-> <<>>,
              path |-> branch,
              caller |-> converted, x |-> x, weights |-> weights]
        ELSE [status |-> "returned",
              out |-> Filter(flagged, KeepMask(sizes, maxGap)),
              path |-> branch,
              caller |-> converted, x |-> x, weights |-> weights]

(* --------------------------- validate_results --------------------------- *)
NoData == <<"No valid data found">>

MissingValues == <<"Missing values detected in the data">>

Unrealistic == <<"Unrealistic MCARI values detected">>

\* f"Short temporal coverage: {date_range} days"
ShortCoverage(n) == <<"Short temporal coverage: ", n, " days">>

LargeGaps == <<"Large temporal gaps detected (>30 days)">>

\* mutant: df[[mean, stdDev, min, max]].isnull().any().any()
AnyNullStatistic(frame) ==
    \E i \in DOMAIN frame : \E c \in DOMAIN frame[i] :
        c \notin {"date", "is_interpolated", "cloud_cover"} /\ IsNull(frame[i][c])

\* df.isnull().any().any(); a date or a flag is never null here
AnyNull(frame) ==
    \E i \in DOMAIN frame : \E c \in DOMAIN frame[i] :
        c \notin {"date", "is_interpolated"} /\ IsNull(frame[i][c])

\* (df['MCARI_mean'] > 2).any() or (df['MCARI_mean'] < -2).any()
AnyUnrealistic(frame) ==
    \/ \E i \in DOMAIN frame :
          ~IsNull(frame[i]["MCARI_mean"]) /\ frame[i]["MCARI_mean"][1] > UpperLimit
    \/ \E i \in DOMAIN frame :
          ~IsNull(frame[i]["MCARI_mean"]) /\ frame[i]["MCARI_mean"][1] < LowerLimit

\* (df['date'].max() - df['date'].min()).days
DateRangeDays(frame) ==
    LET days == {frame[i]["date"].day : i \in DOMAIN frame}
    IN  Max(days) - Min(days)

\* mutant: (gaps >= 30).any()
AnyLargeGapInclusive(frame) ==
    LET df_sorted == sort_values(frame)
    IN  \E i \in 2..Len(df_sorted) :
            df_sorted[i]["date"].day - df_sorted[i - 1]["date"].day >= MaxGapAllowed

\* mutant: (gaps > 31).any()
AnyLargeGapLoose(frame) ==
    LET df_sorted == sort_values(frame)
    IN  \E i \in 2..Len(df_sorted) :
            df_sorted[i]["date"].day - df_sorted[i - 1]["date"].day > MaxGapAllowed + 1

\* (df.sort_values('date')['date'].diff().dt.days > 30).any()
AnyLargeGap(frame) ==
    LET df_sorted == sort_values(frame)
    IN  \E i \in 2..Len(df_sorted) :
            df_sorted[i]["date"].day - df_sorted[i - 1]["date"].day > MaxGapAllowed

\* mutant: return True, []
EmptyReportValid == [isValid |-> TRUE, issues |-> <<>>]

\* return False, ["No valid data found"]
EmptyReport == [isValid |-> FALSE, issues |-> <<NoData>>]

\* if df.isnull().any().any(): issues.append(...)
CheckMissing(frame, issues) ==
    IF AnyNull(frame) THEN Append(issues, MissingValues) ELSE issues

\* mutant: elif, the check is skipped once an issue is recorded
CheckUnrealisticElif(frame, issues) ==
    IF issues = <<>> /\ AnyUnrealistic(frame) THEN Append(issues, Unrealistic)
    ELSE issues

\* if (df['MCARI_mean'] > 2).any() or (df['MCARI_mean'] < -2).any(): ...
CheckUnrealistic(frame, issues) ==
    IF AnyUnrealistic(frame) THEN Append(issues, Unrealistic) ELSE issues

\* mutant: if date_range <= 30
CheckCoverageInclusive(frame, issues) ==
    LET date_range_days == DateRangeDays(frame)
    IN  IF date_range_days <= MinCoverageDays
        THEN Append(issues, ShortCoverage(date_range_days)) ELSE issues

\* if date_range < 30: issues.append(f"Short temporal coverage: ...")
CheckCoverage(frame, issues) ==
    LET date_range_days == DateRangeDays(frame)
    IN  IF date_range_days < MinCoverageDays
        THEN Append(issues, ShortCoverage(date_range_days)) ELSE issues

\* if (gaps > 30).any(): issues.append(...)
CheckLargeGaps(frame, issues) ==
    IF AnyLargeGap(frame) THEN Append(issues, LargeGaps) ELSE issues

\* mutant: return len(issues) <= 1, issues
VerdictLenient(issues) == Len(issues) <= 1

\* return len(issues) == 0, issues
Verdict(issues) == Len(issues) = 0

\* mutant: df['gaps'] = df['date'].diff().dt.days is kept in the caller's
\* frame; the difference of the first row is NaN
FrameWithGapsColumn(frame) ==
    LET converted == to_datetime(frame)
    IN  AsSeq([i \in DOMAIN converted |->
            [c \in DOMAIN converted[i] \cup {"gaps"} |->
                IF c # "gaps" THEN converted[i][c]
                ELSE IF i = 1 THEN NaN
                ELSE <<converted[i]["date"].day - converted[i - 1]["date"].day>>]])

\* the caller's frame after the call: df['date'] = pd.to_datetime(df['date'])
\* is the only assignment to it
FrameAfterValidate(frame) == to_datetime(frame)

\* validate_results(df): the tuple returned and the frame afterwards
validate_results(frame) ==
    IF frame = <<>>
    THEN [isValid |-> EmptyReport.isValid, issues |-> EmptyReport.issues,
          frame |-> frame]
    ELSE
    LET issues1 == CheckMissing(frame, <<>>)
        converted == to_datetime(frame)
        issues2 == CheckUnrealistic(converted, issues1)
        issues3 == CheckCoverage(converted, issues2)
        issues4 == CheckLargeGaps(converted, issues3)
    IN  [isValid |-> Verdict(issues4), issues |-> issues4,
         frame |-> FrameAfterValidate(frame)]

(* ------------------------------- actions -------------------------------- *)
\* the dates of a frame
ObsDaysOf(frame) == {frame[i]["date"].day : i \in DOMAIN frame}

NoResult == [status |-> "none", out |-> <<>>, path |-> "none"]

\* whittaker_smooth has not been called
NoSmooth == [called |-> FALSE, x |-> <<>>, w |-> <<>>]

\* the chunk loop of run_analysis is not followed
NoChunks == [start |-> 0, end |-> 0, chunk_size |-> 0, current_start |-> 0,
             requested |-> <<>>]

Init ==
    /\ pc = "input"
    /\ schema \in Schemas
    /\ df = <<>>
    /\ max_gap_days = DefaultMaxGapDays
    /\ result = NoResult
    /\ reports = <<>>
    /\ smooth = NoSmooth
    /\ outputs = <<>>
    /\ chunks = NoChunks

\* the acquisition step appends one feature with a non-null mean
\* (process_date_chunk); the dates of an Observation set are unique
AddObservation(d, m) ==
    /\ pc = "input"
    /\ Len(df) < MaxObs
    /\ \A i \in DOMAIN df : df[i]["date"].day # d
    /\ df' = Append(df, Feature(schema, d, m))
    /\ UNCHANGED <<pc, schema, max_gap_days, result, reports, smooth, outputs, chunks>>

\* df_filled = fill_gaps(df, g)
FillGaps(g, num) ==
    /\ pc = "input"
    /\ LET r == fill_gaps(df, g, num)
       IN  /\ result' = [status |-> r.status, out |-> r.out, path |-> r.path]
           /\ df' = r.caller
           /\ pc' = IF r.status = "raised" THEN "raised" ELSE "filled"
           /\ smooth' = IF r.weights = <<>> THEN NoSmooth
                         ELSE [called |-> TRUE, x |-> r.x, w |-> r.weights]
    /\ max_gap_days' = g
    /\ UNCHANGED <<schema, reports, outputs, chunks>>

\* is_valid, issues = validate_results(series) on the filled series, or on
\* the observations themselves when fill_gaps was not called
ValidateResults ==
    /\ pc \in {"input", "filled", "validated"}
    /\ Len(reports) < MaxCalls
    /\ LET onFilled == result.status = "returned"
           r == validate_results(IF onFilled THEN result.out ELSE df)
       IN  /\ reports' = Append(reports, [isValid |-> r.isValid, issues |-> r.issues])
           /\ result' = IF onFilled THEN [result EXCEPT !.out = r.frame] ELSE result
           /\ df' = IF onFilled THEN df ELSE r.frame
    /\ pc' = "validated"
    /\ UNCHANGED <<schema, max_gap_days, smooth, outputs, chunks>>

Next ==
    \/ \E d \in Days, m \in Means : AddObservation(d, m)
    \/ \E g \in GapChoices, num \in Numerics : FillGaps(g, num)
    \/ ValidateResults

Spec == Init /\ [][Next]_vars

(* ------------------- the end-to-end example of the spec ----------------- *)
\* observations at day 0, day 10 and day 50
ExampleDays == {0, 10, 50}

\* mean values 0.3, 0.4 and 0.5, in tenths
ExampleMeans == {3, 4, 5}

\* the three observations, in any order, each with one of the means
InitExample ==
    /\ pc = "input"
    /\ schema \in Schemas
    /\ \E a \in ExampleDays, b \in ExampleDays, c \in ExampleDays :
          /\ {a, b, c} = ExampleDays
          /\ \E means \in [ExampleDays -> ExampleMeans] :
                df = <<Feature(schema, a, means[a]), Feature(schema, b, means[b]),
                       Feature(schema, c, means[c])>>
    /\ max_gap_days = DefaultMaxGapDays
    /\ result = NoResult
    /\ reports = <<>>
    /\ smooth = NoSmooth
    /\ outputs = <<>>
    /\ chunks = NoChunks

\* fill_gaps(df) with the default max_gap_days = 32
FillGapsDefault == \E num \in Numerics : FillGaps(DefaultMaxGapDays, num)

NextExample == FillGapsDefault \/ ValidateResults

SpecExample == InitExample /\ [][NextExample]_vars

(* ------------------ series around the validation thresholds ------------- *)
\* observation dates whose differences include 29, 30 and 31 days
ThresholdDays == {0, 1, 30, 31, 61}

\* one more observation of a series that validate_results is called on
AddThresholdObservation == \E d \in ThresholdDays, m \in Means : AddObservation(d, m)

NextValidate == AddThresholdObservation \/ ValidateResults

SpecValidate == Init /\ [][NextValidate]_vars

(* ----------------------------- run_analysis ------------------------------ *)
\* the frame run_analysis builds holds the columns of process_date_chunk
InitRun == Init /\ schema = FullCols

\* one more feature from a chunk
AddChunkResult == \E d \in Days, m \in Means : AddObservation(d, m)

\* if df.empty: logging.warning(...); return df
ReturnEmpty ==
    /\ pc = "input"
    /\ df = <<>>
    /\ pc' = "done"
    /\ outputs' = <<[kind |-> "return", content |-> df]>>
    /\ UNCHANGED <<schema, df, max_gap_days, result, reports, smooth, chunks>>

\* df_filled = fill_gaps(df); an exception is logged and raised again
RunFillGaps ==
    /\ df # <<>>
    /\ FillGapsDefault

\* mutant: if not is_valid: raise
AfterValidateAbort(is_valid) == IF is_valid THEN "save" ELSE "raised"

\* if not is_valid: for issue in issues: logging.warning(...); the run goes
\* on to save the results either way
AfterValidate(is_valid) == "save"

\* is_valid, issues = self.validate_results(df_filled)
RunValidate ==
    /\ pc = "filled"
    /\ LET r == validate_results(result.out)
       IN  /\ reports' = <<[isValid |-> r.isValid, issues |-> r.issues]>>
           /\ result' = [result EXCEPT !.out = r.frame]
           /\ pc' = AfterValidate(r.isValid)
    /\ UNCHANGED <<schema, df, max_gap_days, smooth, outputs, chunks>>

\* df_filled.to_csv(csv_file, index=False)
SaveCsv ==
    /\ pc = "save"
    /\ outputs' = Append(outputs, [kind |-> "csv", content |-> result.out])
    /\ pc' = "plot"
    /\ UNCHANGED <<schema, df, max_gap_days, result, reports, smooth, chunks>>

\* self.plot_time_series(df_filled, str(plot_file)): the figure shows the rows
\* of the series
PlotTimeSeries ==
    /\ pc = "plot"
    /\ outputs' = Append(outputs, [kind |-> "plot", content |-> result.out])
    /\ pc' = "metadata"
    /\ UNCHANGED <<schema, df, max_gap_days, result, reports, smooth, chunks>>

\* metadata = {..., 'quality_issues': issues, 'total_observations': len(df),
\* 'interpolated_points': len(df_filled) - len(df), ...}; json.dump(metadata, f)
SaveMetadata ==
    /\ pc = "metadata"
    /\ outputs' = Append(outputs,
          [kind |-> "metadata",
           content |-> [quality_issues |-> reports[1].issues,
                        total_observations |-> Len(df),
                        interpolated_points |-> Len(result.out) - Len(df)]])
    /\ pc' = "return"
    /\ UNCHANGED <<schema, df, max_gap_days, result, reports, smooth, chunks>>

\* return df_filled
ReturnFilled ==
    /\ pc = "return"
    /\ outputs' = Append(outputs, [kind |-> "return", content |-> result.out])
    /\ pc' = "done"
    /\ UNCHANGED <<schema, df, max_gap_days, result, reports, smooth, chunks>>

NextRun ==
    \/ AddChunkResult
    \/ ReturnEmpty
    \/ RunFillGaps
    \/ RunValidate
    \/ SaveCsv
    \/ PlotTimeSeries
    \/ SaveMetadata
    \/ ReturnFilled

SpecRun == InitRun /\ [][NextRun]_vars

(* ----------------- the smoother on a calendar of three days ------------- *)
\* observation dates of a calendar of three days
SmoothDays == {0, 1, 2}

\* mean values between -2.0 and 2.5, in tenths
SmoothMeans == {-20, 0, 5, 10, 25}

AddSmoothObservation ==
    \E d \in SmoothDays, m \in SmoothMeans : AddObservation(d, m)

\* smoothed = whittaker_smooth(x, weights) with the x and the weights that
\* fill_gaps computes from the observations
WhittakerSmooth(g) ==
    /\ pc = "input"
    /\ LET r == fill_gaps(df, g, CHOOSE num \in Numerics : TRUE)
       IN  /\ Len(r.x) = Cardinality(SmoothDays)
           /\ smooth' = [called |-> TRUE, x |-> r.x, w |-> r.weights,
                          z |-> whittaker_solve(r.x, r.weights)]
    /\ pc' = "smoothed"
    /\ max_gap_days' = g
    /\ UNCHANGED <<schema, df, result, reports, outputs, chunks>>

NextSmooth ==
    \/ AddSmoothObservation
    \/ \E g \in GapChoices : WhittakerSmooth(g)

SpecSmooth == Init /\ [][NextSmooth]_vars

(* ------------- observations with null secondary statistics ------------- *)
\* the frame holds every column
InitNullStats == Init /\ schema = FullCols

\* an observation with all its statistics
AddFullObservation == \E d \in Days : AddObservation(d, Min(Means))

\* an observation with a mean and null stdDev, min and max
AddObservationNoStats ==
    \E d \in Days :
        /\ pc = "input"
        /\ Len(df) < MaxObs
        /\ \A i \in DOMAIN df : df[i]["date"].day # d
        /\ df' = Append(df, FeatureNoStats(schema, d, Max(Means)))
        /\ UNCHANGED <<pc, schema, max_gap_days, result, reports, smooth, outputs, chunks>>

\* fill_gaps(df, g)
FillGapsAny == \E g \in GapChoices, num \in Numerics : FillGaps(g, num)

NextNullStats == AddFullObservation \/ AddObservationNoStats \/ FillGapsAny

SpecNullStats == InitNullStats /\ [][NextNullStats]_vars

(* --------------- runs of missing days around 30 days long --------------- *)
\* observation dates 31 and 33 days apart: runs of 30 and of 32 missing days
LongGapDays == {0, 31, 64}

\* thresholds from 29 days on, the default among them
LongGapChoices == {29, DefaultMaxGapDays}

AddLongGapObservation == \E d \in LongGapDays, m \in Means : AddObservation(d, m)

FillLongGaps == \E g \in LongGapChoices, num \in Numerics : FillGaps(g, num)

NextLongGaps == AddLongGapObservation \/ FillLongGaps \/ ValidateResults

SpecLongGaps == Init /\ [][NextLongGaps]_vars

(* ------------------------ the chunk loop of run_analysis ----------------- *)
\* the latest date of a period, the earliest being day 0
LastDate == 6

\* the largest chunk_size_days
MaxChunkDays == 4

\* start and end are parsed from the arguments, chunk_size is
\* timedelta(days=config['chunk_size_days']), current_start = start
InitChunks ==
    /\ pc = "chunks"
    /\ schema = FullCols
    /\ df = <<>>
    /\ max_gap_days = DefaultMaxGapDays
    /\ result = NoResult
    /\ reports = <<>>
    /\ smooth = NoSmooth
    /\ outputs = <<>>
    /\ \E start \in 0..LastDate, end \in 0..LastDate, size \in 1..MaxChunkDays :
          /\ start < end
          /\ chunks = [start |-> start, end |-> end, chunk_size |-> size,
                        current_start |-> start, requested |-> <<>>]

\* mutant: current_end = current_start + chunk_size
CurrentEndUnclamped(current_start, chunk_size, end) == current_start + chunk_size

\* current_end = min(current_start + chunk_size, end)
CurrentEnd(current_start, chunk_size, end) == Min({current_start + chunk_size, end})

\* what process_date_chunk returns for the chunk: no feature, or the feature of
\* an image dated on the chunk's first day
ChunkResults(from) == {<<>>, <<Feature(FullCols, from, Min(Means))>>}

\* one pass of the loop body: the chunk from current_start to current_end is
\* requested, its results are appended, and current_start = current_end
ProcessChunk ==
    /\ pc = "chunks"
    /\ chunks.current_start < chunks.end
    /\ LET current_end == CurrentEnd(chunks.current_start, chunks.chunk_size, chunks.end)
       IN  /\ chunks' = [chunks EXCEPT
                            !.requested = Append(@, <<chunks.current_start, current_end>>),
                            !.current_start = current_end]
           /\ \E chunk_results \in ChunkResults(chunks.current_start) :
                  df' = df \o chunk_results
    /\ UNCHANGED <<pc, schema, max_gap_days, result, reports, smooth, outputs>>

\* the loop condition is false: df = pd.DataFrame(all_results)
LeaveChunkLoop ==
    /\ pc = "chunks"
    /\ ~(chunks.current_start < chunks.end)
    /\ pc' = "input"
    /\ UNCHANGED <<schema, df, max_gap_days, result, reports, smooth, outputs, chunks>>

NextChunks == ProcessChunk \/ LeaveChunkLoop

\* the loop body always completes: process_date_chunk catches its exceptions
\* and returns, and nothing else runs beside the loop
SpecChunks == InitChunks /\ [][NextChunks]_vars /\ WF_vars(NextChunks)

(* ------------------------- observations of a call ----------------------- *)
\* fill_gaps has returned a series
Returned == pc \in {"filled", "validated"} /\ result.status = "returned"

\* the observation dates of the caller's frame
ObsDays == ObsDaysOf(df)

\* the mean of the observation made on day d
ObsMean(d) == df[CHOOSE i \in DOMAIN df : df[i]["date"].day = d]["MCARI_mean"]

\* the rows of the returned series dated day d
OutRowsOn(d) == {i \in DOMAIN result.out : result.out[i]["date"].day = d}

OutDays == {result.out[i]["date"].day : i \in DOMAIN result.out}

\* a row is flagged as interpolated; a series returned without the
\* is_interpolated column flags no row (spec 4.1 step 2: absent / false)
Flagged(row) == "is_interpolated" \in DOMAIN row /\ row["is_interpolated"]

\* days a < b are observation dates with no observation between them
Adjacent(a, b) ==
    /\ a \in ObsDays /\ b \in ObsDays /\ a < b
    /\ \A d \in ObsDays : ~(a < d /\ d < b)

\* the length of the run of missing days between adjacent observations
RunLength(a, b) == b - a - 1

\* the days of the calendar without an observation
MissingDays == {d \in Min(ObsDays)..Max(ObsDays) : d \notin ObsDays}

\* the length of the maximal run of missing days around missing day d
EnclosingRun(d) ==
    LET a == Max({o \in ObsDays : o < d})
        b == Min({o \in ObsDays : o > d})
    IN  RunLength(a, b)

(* -------------------------------- claims -------------------------------- *)
\* C1: every row of the series fill_gaps returns whose date is an input
\* observation date carries exactly that observation's mean and is not
\* flagged as interpolated, for every max_gap_days >= 0.
C1_ObservedRowsExact ==
    Returned =>
        \A i \in DOMAIN result.out :
            LET row == result.out[i]
            IN  row["date"].day \in ObsDays =>
                    /\ row["MCARI_mean"] = ObsMean(row["date"].day)
                    /\ ~Flagged(row)

\* a series with filled rows was returned and holds an observation between them
C1_Witness ==
    /\ Returned
    /\ Cardinality(ObsDays) >= 3
    /\ \E i \in DOMAIN result.out : Flagged(result.out[i])
    /\ \E i \in DOMAIN result.out :
          /\ ~Flagged(result.out[i])
          /\ result.out[i]["MCARI_mean"] = <<25>>
    /\ \E i \in DOMAIN result.out :
          /\ ~Flagged(result.out[i])
          /\ result.out[i]["MCARI_mean"] = <<5>>

C3_CalendarCompleteness ==
    Returned /\ df # <<>> =>
        \A d \in (Min(ObsDays) + 1)..(Max(ObsDays) - 1) :
            d \in OutDays <=>
                (d \in ObsDays \/ EnclosingRun(d) <= max_gap_days)

\* a returned series that keeps one missing run and drops another
C3_Witness ==
    /\ Returned
    /\ df # <<>>
    /\ \E d \in MissingDays : d \in OutDays
    /\ \E d \in MissingDays : d \notin OutDays
    /\ \E d \in ObsDays : Min(ObsDays) < d /\ d < Max(ObsDays)

\* C4: the returned series is strictly increasing by date, whatever the
\* order of the input observations.
C4_StrictlyIncreasing ==
    Returned =>
        \A i \in DOMAIN result.out : \A j \in DOMAIN result.out :
            i < j => result.out[i]["date"].day < result.out[j]["date"].day

\* a series returned for observations given in descending date order
C4_Witness ==
    /\ Returned
    /\ Len(df) >= 3
    /\ \A i \in 1..(Len(df) - 1) : df[i]["date"].day > df[i + 1]["date"].day
    /\ Len(result.out) > Len(df)

\* C5 as stated: for observations at day 0, 10 and 50 and max_gap_days = 32
\* the returned series has days 0 to 42 with filled values, days 43 to 49
\* absent, and day 50 with the mean of the input.
C5_AsStated ==
    Returned /\ ObsDays = ExampleDays /\ max_gap_days = DefaultMaxGapDays =>
        /\ \A d \in 0..42 :
              /\ OutRowsOn(d) # {}
              /\ \A i \in OutRowsOn(d) : ~IsNull(result.out[i]["MCARI_mean"])
        /\ \A d \in 43..49 : OutRowsOn(d) = {}
        /\ \A i \in OutRowsOn(50) : result.out[i]["MCARI_mean"] = ObsMean(50)
        /\ OutRowsOn(50) # {}

\* C5: for observations at day 0, 10 and 50 and max_gap_days = 32, a series
\* fill_gaps returns has days 0 to 10 (days 1 to 9 filled and flagged as
\* interpolated), has none of days 11 to 49, and has day 50 with the mean of
\* the input.
C5_ExampleSeries ==
    Returned /\ ObsDays = ExampleDays /\ max_gap_days = DefaultMaxGapDays =>
        /\ \A d \in 0..10 :
              /\ Cardinality(OutRowsOn(d)) = 1
              /\ \A i \in OutRowsOn(d) : ~IsNull(result.out[i]["MCARI_mean"])
        /\ \A d \in 1..9 : \A i \in OutRowsOn(d) : Flagged(result.out[i])
        /\ \A d \in 11..49 : OutRowsOn(d) = {}
        /\ Cardinality(OutRowsOn(50)) = 1
        /\ \A d \in ExampleDays : \A i \in OutRowsOn(d) :
              /\ result.out[i]["MCARI_mean"] = ObsMean(d)
              /\ ~Flagged(result.out[i])

\* the series returned for means 0.3, 0.5 and 0.4 on days 0, 10 and 50
C5_Witness ==
    /\ Returned
    /\ ObsDays = ExampleDays
    /\ max_gap_days = DefaultMaxGapDays
    /\ ObsMean(0) = <<3>> /\ ObsMean(10) = <<5>> /\ ObsMean(50) = <<4>>
    /\ Len(result.out) = 12

\* the frame validate_results was called on
Validated == IF result.status = "returned" THEN result.out ELSE df

\* fill_gaps has been called
Called == result.status # "none"

\* C6: on an empty Observation set fill_gaps returns an empty series and
\* does not raise, and validate_results on an empty series returns exactly
\* (False, ["No valid data found"]).
C6_EmptyInput ==
    /\ Called /\ df = <<>> => result.status = "returned" /\ result.out = <<>>
    /\ Validated = <<>> =>
          \A k \in DOMAIN reports :
              reports[k] = [isValid |-> FALSE, issues |-> <<NoData>>]

\* the empty series was filled and then validated
C6_Witness ==
    /\ df = <<>>
    /\ result.status = "returned"
    /\ Len(reports) >= 1

\* C7 as stated: with fewer than 4 observations, a missing calendar day and
\* max_gap_days = 32, fill_gaps does not raise, takes the smoother-only branch and leaves the
\* observations' means exact.
C7_AsStated ==
    /\ Called /\ df # <<>> /\ max_gap_days = DefaultMaxGapDays
    /\ Cardinality(ObsDays) < 4 /\ MissingDays # {}
    =>
        /\ result.status = "returned"
        /\ result.path = "smooth"
        /\ \A i \in DOMAIN result.out :
              result.out[i]["date"].day \in ObsDays =>
                  result.out[i]["MCARI_mean"] = ObsMean(result.out[i]["date"].day)

\* C8: validate_results returns isValid = true iff the issues list it
\* returns is empty, the empty series included.
C8_ValidIffNoIssues ==
    \A k \in DOMAIN reports : reports[k].isValid <=> reports[k].issues = <<>>

\* a series was reported valid
C8_Witness == \E k \in DOMAIN reports : reports[k].isValid /\ Validated # <<>>

\* the conditions of the four checks, stated on the rows of a series
HasNullCell(frame) ==
    \E i \in DOMAIN frame :
        \E c \in DOMAIN frame[i] \ {"date", "is_interpolated"} : frame[i][c] = <<>>

HasMeanOutside(frame) ==
    \E i \in DOMAIN frame :
        LET cell == frame[i]["MCARI_mean"]
        IN  cell # <<>> /\ (cell[1] > 20 \/ cell[1] < -20)

SpanDays(frame) == Max(ObsDaysOf(frame)) - Min(ObsDaysOf(frame))

HasDatesFarApart(frame) ==
    \E a \in ObsDaysOf(frame), b \in ObsDaysOf(frame) :
        /\ b - a > 30
        /\ \A d \in ObsDaysOf(frame) : ~(a < d /\ d < b)

\* the issues the four checks give when each is decided on its own
IndependentIssues(frame) ==
    (IF HasNullCell(frame) THEN <<MissingValues>> ELSE <<>>)
    \o (IF HasMeanOutside(frame) THEN <<Unrealistic>> ELSE <<>>)
    \o (IF SpanDays(frame) < 30 THEN <<ShortCoverage(SpanDays(frame))>> ELSE <<>>)
    \o (IF HasDatesFarApart(frame) THEN <<LargeGaps>> ELSE <<>>)

\* C9: for a non-empty series every one of the four checks is evaluated:
\* an issue is in the list iff its own condition holds, once, and the issues
\* are in the order missing, unrealistic, coverage, gaps.
C9_IndependentChecks ==
    Validated # <<>> =>
        \A k \in DOMAIN reports : reports[k].issues = IndependentIssues(Validated)

\* a report with three issues: the later checks ran after the earlier failed
C9_Witness ==
    /\ Validated # <<>>
    /\ \E k \in DOMAIN reports : Len(reports[k].issues) = 3

\* C10: the reports of successive validate_results calls on one series are
\* identical, and no report holds an issue twice.
C10_RepeatableReport ==
    /\ \A i \in DOMAIN reports : \A j \in DOMAIN reports : reports[i] = reports[j]
    /\ \A k \in DOMAIN reports :
          \A a \in DOMAIN reports[k].issues : \A b \in DOMAIN reports[k].issues :
              a # b => reports[k].issues[a] # reports[k].issues[b]

\* two calls were made on a series with issues
C10_Witness ==
    /\ Len(reports) >= 2
    /\ Validated # <<>>
    /\ reports[1].issues # <<>>

\* the largest difference between two dates of a series with no date between
MaxDateStep(frame) ==
    Max({0} \cup {b - a : <<a, b>> \in
            {p \in ObsDaysOf(frame) \X ObsDaysOf(frame) :
                /\ p[1] < p[2]
                /\ \A d \in ObsDaysOf(frame) : ~(p[1] < d /\ d < p[2])}})

\* C11: validate_results reports the large-temporal-gaps issue iff, in the
\* series ordered by date, two consecutive rows are more than 30 days apart;
\* a difference of exactly 30 days does not trigger it.
C11_LargeGapsBoundary ==
    Validated # <<>> =>
        \A k \in DOMAIN reports :
            (\E j \in DOMAIN reports[k].issues : reports[k].issues[j] = LargeGaps)
                <=> MaxDateStep(Validated) >= 31

\* a validated series whose widest step between consecutive dates is exactly
\* 30 days, given in an order other than by date
C11_Witness ==
    /\ Len(reports) >= 1
    /\ Len(df) >= 3
    /\ MaxDateStep(df) = 30
    /\ \E i \in 2..Len(df) : df[i]["date"].day < df[i - 1]["date"].day

\* C12: validate_results reports the short-coverage issue iff the whole days
\* between the earliest and the latest date are fewer than 30, and the issue
\* names that number of days; a span of exactly 30 days does not trigger it.
C12_ShortCoverageBoundary ==
    Validated # <<>> =>
        \A k \in DOMAIN reports :
            \A n \in 0..Max(ThresholdDays \cup Days) :
                (\E j \in DOMAIN reports[k].issues :
                        reports[k].issues[j] = ShortCoverage(n))
                    <=> (n = SpanDays(Validated) /\ n <= 29)

\* a validated series that spans exactly 30 days
C12_Witness ==
    /\ Len(reports) >= 1
    /\ Len(df) >= 2
    /\ SpanDays(df) = 30

\* C13 as stated: a call of fill_gaps leaves the caller's Observation set as
\* it was, and a call of validate_results leaves the series it is given as it
\* was.
C13_AsStated ==
    [][/\ (pc = "input" /\ pc' \in {"filled", "raised"}) => df' = df
       /\ Len(reports') > Len(reports) => df' = df /\ result'.out = result.out]_vars

\* what a run has written once it is at the given step, when the verdict was
\* given on the filled series with the given issues
WrittenAt(step, issues) ==
    LET all == <<[kind |-> "csv", content |-> result.out],
                 [kind |-> "plot", content |-> result.out],
                 [kind |-> "metadata",
                  content |-> [quality_issues |-> issues,
                               total_observations |-> Len(df),
                               interpolated_points |-> Len(result.out) - Len(df)]],
                 [kind |-> "return", content |-> result.out]>>
        n == CASE step = "save" -> 0
               [] step = "plot" -> 1
               [] step = "metadata" -> 2
               [] step = "return" -> 3
               [] OTHER -> 4
    IN  SubSeq(all, 1, n)

\* C14: in run_analysis on a non-empty Observation set validate_results is
\* given the series fill_gaps returned, and whatever its verdict the run
\* does not stop: each of the next steps can be taken, and they write the
\* CSV, the plot and the metadata holding the issues, and return the series.
C14_ValidationNeverAborts ==
    reports # <<>> =>
        /\ df # <<>>
        /\ result.status = "returned"
        /\ pc \in {"save", "plot", "metadata", "return", "done"}
        /\ outputs = WrittenAt(pc, reports[1].issues)
        /\ pc = "save" => ENABLED SaveCsv
        /\ pc = "plot" => ENABLED PlotTimeSeries
        /\ pc = "metadata" => ENABLED SaveMetadata
        /\ pc = "return" => ENABLED ReturnFilled

\* a run whose series had issues has written everything and returned
C14_Witness ==
    /\ pc = "done"
    /\ Len(reports) = 1
    /\ ~reports[1].isValid
    /\ Len(reports[1].issues) >= 1
    /\ Len(outputs) = 4
    /\ outputs[4].content # <<>>

\* the exact solution of the smoother is in the state
Smoothed == pc = "smoothed" /\ smooth.called

Abs(a) == IF a < 0 THEN -a ELSE a

\* the second difference of z ending at row k, z being 0 outside its days
SecondDiff(z, k) ==
    LET At(j) == IF j \in DOMAIN z THEN z[j] ELSE 0
    IN  At(k) - 2 * At(k - 1) + At(k - 2)

\* the smoothness penalty's pull on position i: the second difference of the
\* second differences
PenaltyAt(z, i) == SecondDiff(z, i) - 2 * SecondDiff(z, i + 1) + SecondDiff(z, i + 2)

\* C15 as stated: at every position of weight 1 the smoothed value z equals
\* the input x to within 1e-6 (1e-5 tenths), for the inputs fill_gaps produces.
C15_AsStated ==
    Smoothed =>
        \A i \in DOMAIN smooth.w :
            smooth.w[i] = 1 =>
                Abs(smooth.z.num[i] - smooth.z.den * smooth.x[i])
                    <= smooth.z.den \div 100000

\* the solution in the state solves (W + 100 D'D) z = w x: at a position of
\* weight 1 it is x less 100 times the penalty's pull there, and at a position
\* of weight 0 the pull is zero
SolveSatisfiesSystem ==
    Smoothed =>
        /\ smooth.z.den > 0
        /\ \A i \in DOMAIN smooth.w :
              LET residual == smooth.w[i] * (smooth.z.den * smooth.x[i] - smooth.z.num[i])
              IN  /\ residual % 100 = 0
                  /\ residual \div 100 = PenaltyAt(smooth.z.num, i)

\* C16: when the calendar between the first and the last observation has a
\* missing day, every row of the series returned carries is_interpolated, true
\* exactly when the row's date is not an observation date.
C16_FlagMarksFilledRows ==
    Returned /\ df # <<>> =>
        (MissingDays # {} =>
            \A i \in DOMAIN result.out :
                LET row == result.out[i]
                IN  /\ "is_interpolated" \in DOMAIN row
                    /\ row["is_interpolated"] <=> row["date"].day \notin ObsDays)

\* a series with a retained short run and a dropped long run was returned
C16_Witness ==
    /\ Returned /\ df # <<>>
    /\ \E i \in DOMAIN result.out : result.out[i]["date"].day \notin ObsDays
    /\ \E d \in MissingDays : d \notin OutDays
    /\ Cardinality(ObsDays) >= 3

\* C17: every row of the series returned has a mean, and the rows retained are
\* the observations and the days of the runs of at most max_gap_days missing
\* days whether or not their stdDev, min or max is null: a filled row may keep
\* a null secondary statistic and is not dropped for it.
C17_MeanFilledStatsMayStayNull ==
    Returned /\ df # <<>> =>
        /\ \A i \in DOMAIN result.out : ~IsNull(result.out[i]["MCARI_mean"])
        /\ OutDays = ObsDays \cup {d \in MissingDays : EnclosingRun(d) <= max_gap_days}

\* a series was returned with a filled row whose min, max and stdDev are null,
\* and with a longer run dropped
C17_Witness ==
    /\ Returned /\ df # <<>>
    /\ \E i \in DOMAIN result.out :
          /\ Flagged(result.out[i])
          /\ IsNull(result.out[i]["MCARI_min"])
          /\ IsNull(result.out[i]["MCARI_max"])
          /\ IsNull(result.out[i]["MCARI_stdDev"])
    /\ \E d \in MissingDays : d \notin OutDays

\* C18: the weight vector given to the smoother is 1 at every day with an
\* observation and 0 at every missing day, whether the day's run is longer
\* than max_gap_days or not; the x it is given holds the observed means at the
\* observation days.
C18_WeightsFollowObservations ==
    smooth.called /\ pc # "smoothed" =>
        /\ Len(smooth.w) = Max(ObsDays) - Min(ObsDays) + 1
        /\ Len(smooth.x) = Len(smooth.w)
        /\ \A i \in DOMAIN smooth.w :
              LET d == Min(ObsDays) + i - 1
              IN  IF d \in ObsDays
                  THEN smooth.w[i] = 1 /\ <<smooth.x[i]>> = ObsMean(d)
                  ELSE smooth.w[i] = 0

\* the smoother was called on a calendar holding a run of at most
\* max_gap_days missing days and a longer run
C18_Witness ==
    /\ smooth.called /\ pc # "smoothed"
    /\ max_gap_days >= 1
    /\ \E d \in MissingDays : EnclosingRun(d) <= max_gap_days
    /\ \E d \in MissingDays : EnclosingRun(d) > max_gap_days

\* the issue is in the report
Reports(report, issue) == \E j \in DOMAIN report.issues : report.issues[j] = issue

\* C19: when the series fill_gaps returns retains a filled row and the
\* observations carry cloud_cover, every validate_results report on it holds
\* the missing-values issue and is not valid.
C19_FilledCloudCoverIsMissing ==
    Returned /\ "cloud_cover" \in schema
             /\ (\E i \in DOMAIN result.out : Flagged(result.out[i]))
    =>
        \A k \in DOMAIN reports :
            Reports(reports[k], MissingValues) /\ ~reports[k].isValid

\* a series with cloud_cover and a filled row was returned and validated
C19_Witness ==
    /\ Returned /\ "cloud_cover" \in schema
    /\ \E i \in DOMAIN result.out :
          Flagged(result.out[i]) /\ IsNull(result.out[i]["cloud_cover"])
    /\ Len(reports) >= 1

\* C20: with max_gap_days of 29 or more, 32 included, when fill_gaps drops
\* the days of a run, every validate_results report on the series returned
\* holds the large-temporal-gaps issue and is not valid.
C20_DroppedRunIsLargeGap ==
    Returned /\ df # <<>> /\ max_gap_days >= 29
             /\ (\E d \in MissingDays : d \notin OutDays)
    =>
        \A k \in DOMAIN reports :
            Reports(reports[k], LargeGaps) /\ ~reports[k].isValid

\* with max_gap_days = 29 a run of exactly 30 days was dropped, no longer run
\* was, and the series was validated
C20_Witness ==
    /\ Returned /\ df # <<>> /\ max_gap_days = 29
    /\ \E d \in MissingDays : d \notin OutDays
    /\ \A d \in MissingDays : EnclosingRun(d) = 30
    /\ Len(reports) >= 1

\* C21: with a mean in every observation and max_gap_days >= 0, the calendar
\* fill_gaps builds begins and ends on an observation, so every missing day has
\* an observation before and after it; the series returned holds every
\* observation date and begins and ends on the earliest and the latest of them.
C21_EndsAreObservations ==
    /\ smooth.called /\ pc # "smoothed" =>
          /\ smooth.w[1] = 1 /\ smooth.w[Len(smooth.w)] = 1
          /\ \A i \in DOMAIN smooth.w :
                smooth.w[i] = 0 =>
                    /\ \E j \in 1..(i - 1) : smooth.w[j] = 1
                    /\ \E j \in (i + 1)..Len(smooth.w) : smooth.w[j] = 1
    /\ Returned /\ df # <<>> =>
          /\ ObsDays \subseteq OutDays
          /\ result.out[1]["date"].day = Min(ObsDays)
          /\ result.out[Len(result.out)]["date"].day = Max(ObsDays)
          /\ \A i \in DOMAIN result.out :
                /\ result.out[i]["date"].day >= Min(ObsDays)
                /\ result.out[i]["date"].day <= Max(ObsDays)

\* with max_gap_days = 0 every run was dropped and a series of three or more
\* observations was returned
C21_Witness ==
    /\ Returned /\ smooth.called
    /\ max_gap_days = 0
    /\ Cardinality(ObsDays) >= 3
    /\ Len(result.out) = Cardinality(ObsDays)
    /\ df[1]["date"].day # Min(ObsDays)

\* the chunks requested so far start at start, follow each other without a
\* gap, are in ascending order and do not pass end
ChunksInOrder ==
    LET req == chunks.requested
    IN  /\ req # <<>> => req[1][1] = chunks.start
        /\ \A k \in DOMAIN req :
              /\ req[k][1] < req[k][2]
              /\ req[k][2] <= chunks.end
              /\ req[k][2] - req[k][1] <= chunks.chunk_size
              /\ k > 1 => req[k][1] = req[k - 1][2]

\* the loop is over and its last chunk ended at end
ChunkLoopDone ==
    /\ pc = "input"
    /\ chunks.requested # <<>>
    /\ chunks.requested[Len(chunks.requested)][2] = chunks.end

\* C22: for start < end and chunk_size_days >= 1 the chunk loop of
\* run_analysis ends, and the chunks it requests are ascending, each starting
\* where the one before ended, the first at start, the last ending at end,
\* none passing end.
C22_ChunkLoopTerminates ==
    /\ [](chunks # NoChunks => ChunksInOrder)
    /\ [](pc = "input" /\ chunks # NoChunks => ChunkLoopDone)
    /\ <>ChunkLoopDone

\* the loop ended after three chunks or more, the last one shorter than
\* chunk_size
C22_Witness ==
    /\ ChunkLoopDone
    /\ Len(chunks.requested) >= 3
    /\ LET last == chunks.requested[Len(chunks.requested)]
       IN  last[2] - last[1] < chunks.chunk_size
    /\ chunks.start > 0

====
